---- MODULE Spec2Model ----
(***************************************************************************)
(* NetplanEditor (src/src/netplan_editor/netplan_editor.py) and the        *)
(* update-netplan command handlers (update_netplan_cmd.py) as a state      *)
(* machine.  One NetplanEditor object is modelled over its lifetime: the   *)
(* parsed documents (self.netplan), the baseline snapshot                  *)
(* (self.netplan_orig), the order in which the documents were loaded, and  *)
(* a record of the last call (arguments, outcome, state before the call).  *)
(*                                                                         *)
(* Values.  A parsed YAML/JSON value is a tagged record [t, v]:            *)
(*   "map" (v: function key -> value), "seq" (v: tuple of values),         *)
(*   "str" (v: tuple of characters), "int", "bool", "null".                *)
(* Python strings that are parsed or searched character by character       *)
(* (raw command-line values, string scalars) are tuples of one-character   *)
(* strings; path segments and file names are TLA+ strings.  A path is the  *)
(* tuple of its "/"-separated segments.  Mapping key order is not          *)
(* represented (dict equality, membership and the operations modelled here *)
(* do not depend on it).                                                   *)
(***************************************************************************)
EXTENDS Integers, Sequences, FiniteSets, TLC

VARIABLES listing, netplan, netplan_orig, last, nops

vars == <<listing, netplan, netplan_orig, last, nops>>

\* Number of calls (library calls and command handlers) explored per object
\* lifetime.
MaxOps == 2

-----------------------------------------------------------------------------
(* Values                                                                  *)

StrN(cs) == [t |-> "str", v |-> cs]
IntN(n) == [t |-> "int", v |-> n]
BoolN(b) == [t |-> "bool", v |-> b]
None == [t |-> "null", v |-> "None"]
MapN(f) == [t |-> "map", v |-> f]
SeqN(s) == [t |-> "seq", v |-> s]

\* str(i) for the list indexes that occur (dpath compares str(index) with a
\* path segment).
IdxStr == <<"0", "1", "2", "3">>

IsIdx(k) == \E i \in 1..Len(IdxStr) : IdxStr[i] = k
IdxOf(k) == CHOOSE i \in 1..Len(IdxStr) : IdxStr[i] = k

\* The characters of each path segment used as an element name, for Python's
\* `element_name in <str>` (substring) and `element_name in <list>` tests.
SegChars(k) ==
    CASE k = "mtu" -> <<"m", "t", "u">>
      [] k = "dhcp4" -> <<"d", "h", "c", "p", "4">>
      [] k = "mac" -> <<"m", "a", "c">>
      [] k = "id" -> <<"i", "d">>
      [] k = "eth0" -> <<"e", "t", "h", "0">>
      [] k = "eth1" -> <<"e", "t", "h", "1">>
      [] k = "br0" -> <<"b", "r", "0">>
      [] k = "v1" -> <<"v", "1">>
      [] OTHER -> <<k>>

\* Python ==/!= on parsed values: dicts compare by key set and values, lists
\* element-wise, bool is an int subclass (True == 1, False == 0).
RECURSIVE PyEq(_, _)
PyEq(a, b) ==
    IF a.t = "map" /\ b.t = "map"
    THEN /\ DOMAIN a.v = DOMAIN b.v
         /\ \A k \in DOMAIN a.v : PyEq(a.v[k], b.v[k])
    ELSE IF a.t = "seq" /\ b.t = "seq"
    THEN /\ Len(a.v) = Len(b.v)
         /\ \A i \in 1..Len(a.v) : PyEq(a.v[i], b.v[i])
    ELSE IF a.t = "bool" /\ b.t = "int"
    THEN b.v = (IF a.v THEN 1 ELSE 0)
    ELSE IF a.t = "int" /\ b.t = "bool"
    THEN a.v = (IF b.v THEN 1 ELSE 0)
    ELSE a.t = b.t /\ a.v = b.v

-----------------------------------------------------------------------------
(* json.loads on the character tuple of the raw input.  The decoder covers *)
(* the JSON forms the raw inputs of this model are built from: integers,   *)
(* true/false/null, double-quoted strings without escapes, arrays, and     *)
(* blanks between tokens; anything else is a JSONDecodeError.              *)

Digits == <<"0", "1", "2", "3", "4", "5", "6", "7", "8", "9">>

IsDigit(c) == \E d \in 1..10 : Digits[d] = c
DigitVal(c) == (CHOOSE d \in 1..10 : Digits[d] = c) - 1

RECURSIVE SkipWs(_, _)
SkipWs(s, i) == IF i <= Len(s) /\ s[i] = " " THEN SkipWs(s, i + 1) ELSE i

RECURSIVE DigitsEnd(_, _)
DigitsEnd(s, i) == IF i <= Len(s) /\ IsDigit(s[i]) THEN DigitsEnd(s, i + 1) ELSE i

\* The decimal value of s[i..j-1].
RECURSIVE DecVal(_, _, _)
DecVal(s, i, j) == IF i >= j THEN 0 ELSE DecVal(s, i, j - 1) * 10 + DigitVal(s[j - 1])

StartsWith(s, i, w) == i + Len(w) - 1 <= Len(s) /\ SubSeq(s, i, i + Len(w) - 1) = w

JsonFail == [ok |-> FALSE, val |-> None, nxt |-> 0]
JsonOk(val, nxt) == [ok |-> TRUE, val |-> val, nxt |-> nxt]

\* number: -? (0 | [1-9][0-9]*)
ParseNumber(s, i) ==
    LET neg == i <= Len(s) /\ s[i] = "-"
        b == IF neg THEN i + 1 ELSE i
        e == IF b <= Len(s) /\ s[b] = "0" THEN b + 1 ELSE DigitsEnd(s, b)
    IN IF e = b THEN JsonFail
       ELSE JsonOk(IntN(IF neg THEN 0 - DecVal(s, b, e) ELSE DecVal(s, b, e)), e)

\* The index of the closing quote of the string whose body starts at i, or 0.
RECURSIVE StrEnd(_, _)
StrEnd(s, i) ==
    IF i > Len(s) \/ s[i] = "\\" THEN 0
    ELSE IF s[i] = "\"" THEN i
    ELSE StrEnd(s, i + 1)

ParseString(s, i) ==
    LET e == StrEnd(s, i + 1)
    IN IF e = 0 THEN JsonFail ELSE JsonOk(StrN(SubSeq(s, i + 1, e - 1)), e + 1)

RECURSIVE ParseValue(_, _)
RECURSIVE ParseElems(_, _, _)

\* value at s[i..], after blanks
ParseValue(s, i0) ==
    LET i == SkipWs(s, i0)
    IN IF i > Len(s) THEN JsonFail
       ELSE IF StartsWith(s, i, <<"t", "r", "u", "e">>) THEN JsonOk(BoolN(TRUE), i + 4)
       ELSE IF StartsWith(s, i, <<"f", "a", "l", "s", "e">>) THEN JsonOk(BoolN(FALSE), i + 5)
       ELSE IF StartsWith(s, i, <<"n", "u", "l", "l">>) THEN JsonOk(None, i + 4)
       ELSE IF s[i] = "\"" THEN ParseString(s, i)
       ELSE IF s[i] = "[" THEN
            LET j == SkipWs(s, i + 1)
            IN IF j <= Len(s) /\ s[j] = "]" THEN JsonOk(SeqN(<<>>), j + 1)
               ELSE ParseElems(s, j, <<>>)
       ELSE IF s[i] = "-" \/ IsDigit(s[i]) THEN ParseNumber(s, i)
       ELSE JsonFail

\* elements of an array, the elements before position i being acc
ParseElems(s, i, acc) ==
    LET r == ParseValue(s, i)
        j == SkipWs(s, r.nxt)
    IN IF ~r.ok \/ j > Len(s) THEN JsonFail
       ELSE IF s[j] = "]" THEN JsonOk(SeqN(Append(acc, r.val)), j + 1)
       ELSE IF s[j] = "," THEN ParseElems(s, j + 1, Append(acc, r.val))
       ELSE JsonFail

\* json.loads(new_val): the whole text must be one value ("Extra data" fails).
JsonLoads(s) ==
    LET r == ParseValue(s, 1)
    IN IF r.ok /\ SkipWs(s, r.nxt) = Len(s) + 1 THEN r ELSE JsonFail

\* NetplanEditor._convert_input_val
convert_input_val(new_val) ==
    LET r == JsonLoads(new_val)
    IN IF r.ok THEN r.val ELSE StrN(new_val)

-----------------------------------------------------------------------------
(* dpath.util as NetplanEditor calls it (separator "/", glob segments:     *)
(* a literal or "*").                                                      *)

Leaf(n) == n.t \notin {"map", "seq"}

Keys(n) ==
    IF n.t = "map" THEN DOMAIN n.v
    ELSE IF n.t = "seq" THEN {IdxStr[i] : i \in 1..Len(n.v)}
    ELSE {}

Child(n, k) == IF n.t = "map" THEN n.v[k] ELSE n.v[IdxOf(k)]

\* fnmatch of one segment
SegMatch(k, g) == g = "*" \/ g = k

RECURSIVE NodeAt(_, _)
NodeAt(n, p) == IF p = <<>> THEN n ELSE NodeAt(Child(n, Head(p)), Tail(p))

\* dpath.util.search(obj, glob, yielded=True): the concrete paths of the nodes
\* dpath.segments.walk visits whose segments all match the glob's
RECURSIVE DSearch(_, _)
DSearch(obj, glob) ==
    IF Len(glob) = 1 THEN {<<k>> : k \in {x \in Keys(obj) : SegMatch(x, glob[1])}}
    ELSE UNION {{<<k>> \o q : q \in DSearch(Child(obj, k), Tail(glob))} :
                   k \in {x \in Keys(obj) : SegMatch(x, Head(glob))}}

\* dpath.util.get(obj, glob)
DGet(obj, glob) ==
    LET m == DSearch(obj, glob)
    IN IF m = {} THEN [res |-> "KeyError", val |-> None]
       ELSE IF Cardinality(m) > 1 THEN [res |-> "ValueError", val |-> None]
       ELSE [res |-> "ok", val |-> NodeAt(obj, CHOOSE p \in m : TRUE)]

\* dpath.util.set(obj, glob, value): every match is replaced, nothing is created
RECURSIVE DSet(_, _, _)
DSet(n, g, val) ==
    IF g = <<>> THEN val
    ELSE IF n.t = "map"
    THEN MapN([k \in DOMAIN n.v |->
                 IF SegMatch(k, Head(g)) THEN DSet(n.v[k], Tail(g), val) ELSE n.v[k]])
    ELSE IF n.t = "seq"
    THEN SeqN([i \in 1..Len(n.v) |->
                 IF SegMatch(IdxStr[i], Head(g)) THEN DSet(n.v[i], Tail(g), val) ELSE n.v[i]])
    ELSE n

Put(f, k, val) == [x \in DOMAIN f \cup {k} |-> IF x = k THEN val ELSE f[x]]

\* dpath.segments.extend + item assignment on a list
ListPut(s, idx, val) ==
    [i \in 1..(IF idx > Len(s) THEN idx ELSE Len(s)) |->
        IF i = idx THEN val ELSE IF i <= Len(s) THEN s[i] ELSE None]

\* dpath.util.new(obj, path, value) = dpath.segments.set with the default
\* creator: missing intermediate levels are created as dicts, a scalar on the
\* way raises, the last segment is assigned in its parent.
RECURSIVE DNew(_, _, _)
DNew(cur, p, val) ==
    LET k == Head(p)
    IN IF Len(p) = 1
       THEN IF cur.t = "map" THEN [res |-> "ok", node |-> MapN(Put(cur.v, k, val))]
            ELSE IF cur.t = "seq" /\ IsIdx(k)
            THEN [res |-> "ok", node |-> SeqN(ListPut(cur.v, IdxOf(k), val))]
            ELSE [res |-> "TypeError", node |-> cur]
       ELSE IF cur.t = "seq" /\ ~IsIdx(k) THEN [res |-> "TypeError", node |-> cur]
       ELSE LET child == IF k \in Keys(cur) THEN Child(cur, k) ELSE MapN(<<>>)
                r == DNew(child, Tail(p), val)
            IN IF Leaf(child) THEN [res |-> "PathNotFound", node |-> cur]
               ELSE IF r.res # "ok" THEN [res |-> r.res, node |-> cur]
               ELSE IF cur.t = "map"
               THEN [res |-> "ok", node |-> MapN(Put(cur.v, k, r.node))]
               ELSE [res |-> "ok", node |-> SeqN(ListPut(cur.v, IdxOf(k), r.node))]

\* dpath.util.delete(obj, glob): a matching dict entry is removed; a matching
\* list element is removed when it is the last one and set to None otherwise.
RECURSIVE DDel(_, _)
DDel(n, g) ==
    IF Len(g) = 1
    THEN IF n.t = "map"
         THEN MapN([k \in {x \in DOMAIN n.v : ~SegMatch(x, g[1])} |-> n.v[k]])
         ELSE IF n.t = "seq"
         THEN LET cut == Len(n.v) > 0 /\ SegMatch(IdxStr[Len(n.v)], g[1])
                  m == IF cut THEN Len(n.v) - 1 ELSE Len(n.v)
              IN SeqN([i \in 1..m |-> IF SegMatch(IdxStr[i], g[1]) THEN None ELSE n.v[i]])
         ELSE n
    ELSE IF n.t = "map"
    THEN MapN([k \in DOMAIN n.v |->
                 IF SegMatch(k, Head(g)) THEN DDel(n.v[k], Tail(g)) ELSE n.v[k]])
    ELSE IF n.t = "seq"
    THEN SeqN([i \in 1..Len(n.v) |->
                 IF SegMatch(IdxStr[i], Head(g)) THEN DDel(n.v[i], Tail(g)) ELSE n.v[i]])
    ELSE n

DDelete(obj, glob) ==
    LET m == DSearch(obj, glob)
    IN IF m = {} THEN [res |-> "PathNotFound", node |-> obj, count |-> 0]
       ELSE [res |-> "ok", node |-> DDel(obj, glob), count |-> Cardinality(m)]

-----------------------------------------------------------------------------
(* The files on disk and their parsed contents                             *)

\* The *.yml / *.yaml files of netplan_dir, in ascending (Python str) order.
YamlFiles == <<"10-base.yml", "20-override.yaml">>

\* Every regular file that exists (os.path.isfile): the yaml files and one
\* file the directory scan skips.
DiskFiles == {YamlFiles[i] : i \in 1..Len(YamlFiles)} \cup {"README.txt"}

isfile(f) == f \in DiskFiles

\* f.endswith('.yml') or f.endswith('.yaml')
IsYaml(f) == \E i \in 1..Len(YamlFiles) : YamlFiles[i] = f

\* Python str order on the file names
FileRank(f) == CHOOSE i \in 1..Len(YamlFiles) : YamlFiles[i] = f
PyMax(S) == CHOOSE f \in S : \A g \in S : FileRank(g) <= FileRank(f)
PyMin(S) == CHOOSE f \in S : \A g \in S : FileRank(f) <= FileRank(g)

Rec2(k1, v1, k2, v2) == [k \in {k1, k2} |-> IF k = k1 THEN v1 ELSE v2]
Rec3(k1, v1, k2, v2, k3, v3) ==
    [k \in {k1, k2, k3} |-> IF k = k1 THEN v1 ELSE IF k = k2 THEN v2 ELSE v3]

\* yaml.load of 10-base.yml:
\*   network:
\*     version: 2
\*     ethernets:
\*       eth0: {mtu: 1500, dhcp4: true}
\*       eth1:
\*     bridges:
\*       br0: {mtu: 1500}
Doc10 ==
    MapN([k \in {"network"} |-> MapN(Rec3(
        "version", IntN(2),
        "ethernets", MapN(Rec2(
            "eth0", MapN(Rec2("mtu", IntN(1500), "dhcp4", BoolN(TRUE))),
            "eth1", None)),
        "bridges", MapN([b \in {"br0"} |-> MapN([q \in {"mtu"} |-> IntN(1500)])])))])

\* yaml.load of 20-override.yaml:
\*   network:
\*     ethernets:
\*       eth0: {mtu: 9000}
Doc20 ==
    MapN([k \in {"network"} |-> MapN([s \in {"ethernets"} |->
        MapN([e \in {"eth0"} |-> MapN([q \in {"mtu"} |-> IntN(9000)])])])])

\* NetplanEditor.parse
parse(conffile) == IF conffile = "10-base.yml" THEN Doc10 ELSE Doc20

-----------------------------------------------------------------------------
(* The arguments the calls are explored with                               *)

P_mtu == <<"network", "ethernets", "eth0", "mtu">>
P_dhcp4 == <<"network", "ethernets", "eth0", "dhcp4">>
P_mac == <<"network", "ethernets", "eth0", "mac">>
P_eth1 == <<"network", "ethernets", "eth1">>
P_eth1mtu == <<"network", "ethernets", "eth1", "mtu">>
P_brdhcp4 == <<"network", "bridges", "br0", "dhcp4">>
P_vlanid == <<"network", "vlans", "v1", "id">>

\* wildcard-free paths for get_val, set_val and del_entry: in both documents,
\* in 10-base.yml only (a boolean, a null), in no document
Paths == {P_mtu, P_dhcp4, P_eth1, P_vlanid}

\* wildcard-free paths for new_entry: present in both documents; absent with
\* the parent in both, in 10-base.yml only, in none; absent below a null
NewPaths == {P_mtu, P_mac, P_brdhcp4, P_vlanid, P_eth1mtu}

\* key globs of set_all
Globs == {<<"mtu">>, <<"*">>}

\* raw command-line values: 1, eth, ["a"]
Raws == {<<"1">>, <<"e", "t", "h">>, <<"[", "\"", "a", "\"", "]">>}

\* in_file arguments: none, a file on disk, a file that does not exist
InFiles == {"", "20-override.yaml", "missing.yaml"}

-----------------------------------------------------------------------------
(* NetplanEditor                                                           *)

Loaded(np) == DOMAIN np

\* NetplanEditor.changed
changed(np, orig, conf) == ~PyEq(np[conf], orig[conf])

\* a faulty write() that forgets to take a new baseline
write_no_reset(np, orig) ==
    [written |-> {conf \in Loaded(np) : changed(np, orig, conf)}, orig |-> orig]

\* NetplanEditor.write: the files written, and the new baseline
write(np, orig) ==
    [written |-> {conf \in Loaded(np) : changed(np, orig, conf)}, orig |-> np]

\* NetplanEditor.search_raw: (file, path) of every match in every document
search_raw(np, glob) ==
    UNION {{[file |-> f, path |-> p] : p \in DSearch(np[f], glob)} : f \in Loaded(np)}

\* the sections search_params_all_interfaces looks in
Sections == {"ethernets", "bridges", "vlans"}

\* NetplanEditor.search_params_all_interfaces
search_params_all_interfaces(np, key_glob) ==
    UNION {search_raw(np, <<"network", section, "*">> \o key_glob) : section \in Sections}

\* NetplanEditor._match_1st_source_file: the documents are tried in the order
\* of self.netplan.keys(), i.e. the order they were loaded in; "" is None.
RECURSIVE match_1st_source_file(_, _, _, _)
match_1st_source_file(np, order, path, i) ==
    IF i > Len(order) THEN [res |-> "ok", conf |-> ""]
    ELSE LET r == DGet(np[order[i]], path)
         IN IF r.res = "ok" THEN [res |-> "ok", conf |-> order[i]]
            ELSE IF r.res = "KeyError" THEN match_1st_source_file(np, order, path, i + 1)
            ELSE [res |-> r.res, conf |-> ""]

\* NetplanEditor.get_val: None when no document has the path
RECURSIVE get_val(_, _, _, _)
get_val(np, order, path, i) ==
    IF i > Len(order) THEN [res |-> "ok", val |-> None]
    ELSE LET r == DGet(np[order[i]], path)
         IN IF r.res = "ok" THEN [res |-> "ok", val |-> r.val]
            ELSE IF r.res = "KeyError" THEN get_val(np, order, path, i + 1)
            ELSE [res |-> r.res, val |-> None]

Raise(exc, np) == [res |-> exc, ret |-> None, np |-> np]
Return(val, np) == [res |-> "ok", ret |-> val, np |-> np]

\* a faulty set_in that stores the raw string undecoded
set_in_raw(np, conf, path, new_val) ==
    IF conf \notin Loaded(np) THEN Raise("KeyError", np)
    ELSE LET old == DGet(np[conf], path)
         IN IF old.res # "ok" THEN Raise(old.res, np)
            ELSE Return(BoolN(TRUE), [np EXCEPT ![conf] = DSet(np[conf], path, StrN(new_val))])

\* a faulty set_in that creates the entry when it is missing
set_in_creating(np, conf, path, new_val) ==
    IF conf \notin Loaded(np) THEN Raise("KeyError", np)
    ELSE LET r == DNew(np[conf], path, convert_input_val(new_val))
         IN IF r.res # "ok" THEN Raise(r.res, np)
            ELSE Return(BoolN(TRUE), [np EXCEPT ![conf] = r.node])

\* the body of set_val once conf is chosen: self.netplan[conf] and
\* dpath.util.get raise before anything is changed
set_in(np, conf, path, new_val) ==
    IF conf \notin Loaded(np) THEN Raise("KeyError", np)
    ELSE LET old == DGet(np[conf], path)
         IN IF old.res # "ok" THEN Raise(old.res, np)
            ELSE Return(BoolN(TRUE),
                        [np EXCEPT ![conf] = DSet(np[conf], path, convert_input_val(new_val))])

\* NetplanEditor.set_val
set_val(np, order, path, new_val, in_file) ==
    IF in_file # ""
    THEN IF ~isfile(in_file) THEN Raise("FileNotFound", np)
         ELSE set_in(np, in_file, path, new_val)
    ELSE LET m == match_1st_source_file(np, order, path, 1)
         IN IF m.res # "ok" THEN Raise(m.res, np)
            ELSE IF m.conf # "" THEN set_in(np, m.conf, path, new_val)
            ELSE Return(BoolN(FALSE), np)

dirname(path) == SubSeq(path, 1, Len(path) - 1)
basename(path) == path[Len(path)]

IsSubstring(w, s) == \E i \in 1..(Len(s) - Len(w) + 1) : SubSeq(s, i, i + Len(w) - 1) = w

\* Python `element_name in value`: dict key, list element, substring; other
\* values are not iterable (TypeError).
InTest(element_name, value) ==
    IF value.t = "map" THEN [res |-> "ok", found |-> element_name \in DOMAIN value.v]
    ELSE IF value.t = "seq"
    THEN [res |-> "ok",
          found |-> \E i \in 1..Len(value.v) : value.v[i] = StrN(SegChars(element_name))]
    ELSE IF value.t = "str"
    THEN [res |-> "ok", found |-> IsSubstring(SegChars(element_name), value.v)]
    ELSE [res |-> "TypeError", found |-> FALSE]

\* the loop over existing_entries of new_entry, in the order search_raw
\* returns them (document order; a literal base_path matches once per file)
RECURSIVE exists_check(_, _, _, _, _)
exists_check(np, order, base_path, element_name, i) ==
    IF i > Len(order) THEN "ok"
    ELSE IF DSearch(np[order[i]], base_path) = {}
    THEN exists_check(np, order, base_path, element_name, i + 1)
    ELSE LET t == InTest(element_name, NodeAt(np[order[i]], base_path))
         IN IF t.res # "ok" THEN t.res
            ELSE IF t.found THEN "AlreadyExists"
            ELSE exists_check(np, order, base_path, element_name, i + 1)

\* the value new_entry hands to dpath.util.new (line 284)
new_entry_value(new_val) == StrN(new_val)

\* the body of new_entry once conf_file is chosen
new_in(np, conf_file, new_path, new_val) ==
    IF conf_file \notin Loaded(np) THEN Raise("KeyError", np)
    ELSE LET r == DNew(np[conf_file], new_path, new_entry_value(new_val))
         IN IF r.res # "ok" THEN Raise(r.res, np)
            ELSE Return(r.node, [np EXCEPT ![conf_file] = r.node])

\* the faulty choice made by a sort without reverse=True
sorted_first_file_ascending(existing_entries) == PyMin({e.file : e \in existing_entries})

\* sorted(existing_entries, key=lambda tup: tup[0], reverse=True)[0][0]
sorted_first_file(existing_entries) == PyMax({e.file : e \in existing_entries})

\* NetplanEditor.new_entry
new_entry(np, order, new_path, new_val, in_file) ==
    LET base_path == dirname(new_path)
        element_name == basename(new_path)
        existing_entries == search_raw(np, base_path)
    IN IF in_file # ""
       THEN IF ~isfile(in_file) THEN Raise("FileNotFound", np)
            ELSE new_in(np, in_file, new_path, new_val)
       ELSE IF existing_entries # {}
       THEN LET c == exists_check(np, order, base_path, element_name, 1)
            IN IF c # "ok" THEN Raise(c, np)
               ELSE new_in(np, sorted_first_file(existing_entries), new_path, new_val)
       ELSE new_in(np, PyMax(Loaded(np)), new_path, new_val)

\* NetplanEditor.del_entry: without in_file the name `path` (line 301) is
\* not defined in the method
del_entry(np, order, glob, in_file) ==
    IF in_file # ""
    THEN IF ~isfile(in_file) THEN Raise("FileNotFound", np)
         ELSE IF in_file \notin Loaded(np) THEN Raise("KeyError", np)
         ELSE LET old == DGet(np[in_file], glob)
                  d == DDelete(np[in_file], glob)
              IN IF old.res # "ok" THEN Raise(old.res, np)
                 ELSE IF d.res # "ok" THEN Raise(d.res, np)
                 ELSE Return(IntN(d.count), [np EXCEPT ![in_file] = d.node])
    ELSE Raise("NameError", np)

\* a faulty loop that re-resolves every match to its first owning file
RECURSIVE set_each_first_owner(_, _, _, _)
set_each_first_owner(np, order, matches, target_val) ==
    IF matches = {} THEN Return(None, np)
    ELSE LET m == CHOOSE x \in matches : TRUE
             r == set_val(np, order, m.path, target_val, "")
         IN IF r.res # "ok" THEN r
            ELSE set_each_first_owner(r.np, order, matches \ {m}, target_val)

\* the loop of the set_all command over the matches found beforehand
RECURSIVE set_each(_, _, _, _)
set_each(np, order, matches, target_val) ==
    IF matches = {} THEN Return(None, np)
    ELSE LET m == CHOOSE x \in matches : TRUE
             r == set_val(np, order, m.path, target_val, m.file)
         IN IF r.res # "ok" THEN r
            ELSE set_each(r.np, order, matches \ {m}, target_val)

-----------------------------------------------------------------------------
(* State machine                                                           *)

NoPath == <<>>
NoRaw == <<>>

Call(op, path, raw, in_file, res, ret, written) ==
    [op |-> op, path |-> path, raw |-> raw, in_file |-> in_file,
     res |-> res, ret |-> ret, written |-> written,
     pre |-> netplan, pre_orig |-> netplan_orig]

ListingOrders(s) ==
    {p \in [1..Len(s) -> {s[i] : i \in 1..Len(s)}] :
        \A i, j \in 1..Len(s) : i # j => p[i] # p[j]}

\* NetplanEditor.__init__ without conf_file (as the command constructs it):
\* every yaml file of netplan_dir, in the order os.listdir returns them
Init ==
    /\ listing \in ListingOrders(YamlFiles)
    /\ netplan = [f \in {listing[i] : i \in 1..Len(listing)} |-> parse(f)]
    /\ netplan_orig = netplan
    /\ last = [op |-> "init", path |-> NoPath, raw |-> NoRaw, in_file |-> "",
               res |-> "ok", ret |-> None, written |-> {},
               pre |-> netplan, pre_orig |-> netplan]
    /\ nops = 0

\* a library call that does not write
Apply(op, path, raw, in_file, call) ==
    LET r == call IN
    /\ nops < MaxOps
    /\ nops' = nops + 1
    /\ netplan' = r.np
    /\ last' = Call(op, path, raw, in_file, r.res, r.ret, {})
    /\ UNCHANGED <<listing, netplan_orig>>

\* a command handler: the call, then netplan.write() unless the call raised
ApplyCmd(op, path, raw, call) ==
    LET r == call IN
    /\ nops < MaxOps
    /\ nops' = nops + 1
    /\ netplan' = r.np
    /\ IF r.res = "ok"
       THEN LET w == write(r.np, netplan_orig) IN
            /\ netplan_orig' = w.orig
            /\ last' = Call(op, path, raw, "", r.res, r.ret, w.written)
       ELSE /\ netplan_orig' = netplan_orig
            /\ last' = Call(op, path, raw, "", r.res, r.ret, {})
    /\ UNCHANGED listing

SetVal ==
    \E path \in Paths, new_val \in Raws, in_file \in InFiles :
        Apply("set_val", path, new_val, in_file,
              set_val(netplan, listing, path, new_val, in_file))

NewEntry ==
    \E new_path \in NewPaths, new_val \in Raws, in_file \in InFiles :
        Apply("new_entry", new_path, new_val, in_file,
              new_entry(netplan, listing, new_path, new_val, in_file))

DelEntry ==
    \E glob \in Paths, in_file \in InFiles :
        Apply("del_entry", glob, NoRaw, in_file,
              del_entry(netplan, listing, glob, in_file))

Write ==
    /\ netplan_orig' = write(netplan, netplan_orig).orig
    /\ last' = Call("write", NoPath, NoRaw, "", "ok", None,
                    write(netplan, netplan_orig).written)
    /\ nops < MaxOps
    /\ nops' = nops + 1
    /\ UNCHANGED <<listing, netplan>>

\* update_netplan, cmd == 'get'
CmdGet ==
    \E target_path \in Paths :
        LET r == get_val(netplan, listing, target_path, 1)
        IN /\ last' = Call("cmd_get", target_path, NoRaw, "",
                           IF r.res # "ok" THEN r.res
                           ELSE IF r.val = None THEN "entry not found" ELSE "ok",
                           r.val, {})
           /\ nops < MaxOps
           /\ nops' = nops + 1
           /\ UNCHANGED <<listing, netplan, netplan_orig>>

\* update_netplan, cmd == 'set_all'
CmdSetAll ==
    \E target_match \in Globs, target_val \in Raws :
        ApplyCmd("cmd_set_all", target_match, target_val,
                 set_each(netplan, listing,
                          search_params_all_interfaces(netplan, target_match), target_val))

\* update_netplan, cmd == 'delete'
CmdDelete ==
    \E target_path \in Paths :
        ApplyCmd("cmd_delete", target_path, NoRaw,
                 del_entry(netplan, listing, target_path, ""))

Next ==
    \/ SetVal
    \/ NewEntry
    \/ DelEntry
    \/ Write
    \/ CmdGet
    \/ CmdSetAll
    \/ CmdDelete

Spec == Init /\ [][Next]_vars

-----------------------------------------------------------------------------
(* Vocabulary of the properties                                            *)

LoadedFiles == DOMAIN netplan

RECURSIVE HasPath(_, _)
HasPath(n, p) ==
    p = <<>> \/ (Head(p) \in Keys(n) /\ HasPath(Child(n, Head(p)), Tail(p)))

RECURSIVE AllPaths(_)
AllPaths(n) ==
    UNION {{<<k>>} \cup {<<k>> \o q : q \in AllPaths(Child(n, k))} : k \in Keys(n)}

\* the documents that had last.path (resp. its parent) before the last call
Owners == {f \in DOMAIN last.pre : HasPath(last.pre[f], last.path)}
ParentOwners == {f \in DOMAIN last.pre : HasPath(last.pre[f], dirname(last.path))}

\* the first document, in load order, that had last.path before the last call
FirstOwner ==
    LET idx == {i \in 1..Len(listing) : listing[i] \in Owners}
    IN listing[CHOOSE i \in idx : \A j \in idx : i <= j]

\* the documents that were dirty before the last call
DirtyBefore == {f \in DOMAIN last.pre : ~PyEq(last.pre[f], last.pre_orig[f])}

SetSucceeded == last.op = "set_val" /\ last.res = "ok" /\ last.ret = BoolN(TRUE)

GetAfter == get_val(netplan, listing, last.path, 1)

-----------------------------------------------------------------------------
\* C1 (as claimed): after set(p, v) succeeds, with or without a forced target
\* file, get(p) returns decode_input(v).
C1_RoundTripAnyFile ==
    SetSucceeded => GetAfter.val = convert_input_val(last.raw)

\* C1 (amended): after set(p, v) succeeds without a forced target file, or
\* with the forced target file being the first loaded document that contains
\* p, get(p) returns decode_input(v): the JSON-decoded value of v, or the raw
\* string v when v is not valid JSON.
C1_RoundTripFirstOwner ==
    (SetSucceeded /\ (last.in_file = "" \/ last.in_file = FirstOwner))
        => /\ GetAfter.res = "ok"
           /\ GetAfter.val = convert_input_val(last.raw)

\* C1 witness: a forced set into the first owning document of a path that two
\* documents define, with a raw value that JSON-decodes to a non-string.
C1_Witness ==
    /\ SetSucceeded
    /\ last.in_file # ""
    /\ last.in_file = FirstOwner
    /\ Cardinality(Owners) = 2
    /\ last.raw = <<"1">>
    /\ GetAfter.val = IntN(1)

-----------------------------------------------------------------------------
\* the chosen document of the last set_val had no entry at the path: the
\* forced (loaded) file lacks it, or no file is forced and no document has it
SetMissed ==
    /\ last.op = "set_val"
    /\ IF last.in_file # ""
       THEN last.in_file \in DOMAIN last.pre /\ last.in_file \notin Owners
       ELSE Owners = {}

-----------------------------------------------------------------------------
\* some document had an entry named basename(new_path) directly under
\* dirname(new_path) before the last call
EntryExisted ==
    \E f \in ParentOwners :
        LET parent == NodeAt(last.pre[f], dirname(last.path))
        IN parent.t = "map" /\ basename(last.path) \in DOMAIN parent.v

\* C3: new_entry fails with AlreadyExistsError and leaves every document
\* unchanged whenever any loaded document already has the entry, whether the
\* target file is omitted or forced (to a file that exists).
C3_AlreadyExistsGlobal ==
    (last.op = "new_entry" /\ EntryExisted /\ last.in_file \in {""} \cup DOMAIN last.pre)
        => last.res = "AlreadyExists" /\ netplan = last.pre

-----------------------------------------------------------------------------
\* C4: delete(path) without target file removes an existing entry from the
\* first owning document and returns the removed value; when no document has
\* the path it fails with a path-not-found error and changes nothing.
C4_DeleteFirstOwner ==
    (last.op \in {"del_entry", "cmd_delete"} /\ last.in_file = "")
        => IF Owners # {}
           THEN /\ last.res = "ok"
                /\ ~HasPath(netplan[FirstOwner], last.path)
                /\ last.ret = NodeAt(last.pre[FirstOwner], last.path)
                /\ \A f \in LoadedFiles \ {FirstOwner} : netplan[f] = last.pre[f]
           ELSE last.res \in {"KeyError", "PathNotFound"} /\ netplan = last.pre

-----------------------------------------------------------------------------
\* the last call ended with NetplanEditor.write()
Wrote == last.op = "write" \/ (last.op \in {"cmd_set_all", "cmd_delete"} /\ last.res = "ok")

-----------------------------------------------------------------------------
\* C6: whatever order the directory listing returned the files in, get(path)
\* and set(path, v) without target file use the document with the smallest
\* file name among those that contain the path.
C6_LowestFileFirst ==
    /\ (SetSucceeded /\ last.in_file = "")
          => \A f \in LoadedFiles \ {PyMin(Owners)} : netplan[f] = last.pre[f]
    /\ (last.op = "cmd_get" /\ Owners # {})
          => last.ret = NodeAt(last.pre[PyMin(Owners)], last.path)

-----------------------------------------------------------------------------
\* C7: after new_entry(new_path, raw_value) succeeds, the value stored at
\* new_path in the chosen document (the one it changed) is
\* decode_input(raw_value).
C7_NewEntryDecoded ==
    (last.op = "new_entry" /\ last.in_file = "" /\ last.res = "ok")
        => \E f \in LoadedFiles :
              /\ netplan[f] # last.pre[f]
              /\ HasPath(netplan[f], last.path)
              /\ NodeAt(netplan[f], last.path) = convert_input_val(last.raw)

-----------------------------------------------------------------------------
\* C8: the get command does not report "entry not found" for a path that
\* exists in some document, also when its value is null: found and not found
\* are told apart.
C8_GetFoundSignal ==
    (last.op = "cmd_get" /\ Owners # {}) => last.res # "entry not found"

-----------------------------------------------------------------------------
\* the document new_entry is to choose when no target file is forced
NewEntryTarget == IF ParentOwners # {} THEN PyMax(ParentOwners) ELSE PyMax(DOMAIN last.pre)

\* every existing proper prefix of path is a mapping in doc
MapsAbove(doc, path) ==
    \A i \in 0..(Len(path) - 1) :
        HasPath(doc, SubSeq(path, 1, i)) => NodeAt(doc, SubSeq(path, 1, i)).t = "map"

\* an unforced new_entry of an entry no document has, below mappings
NewEntryCase ==
    /\ last.op = "new_entry"
    /\ last.in_file = ""
    /\ ~EntryExisted
    /\ \A f \in ParentOwners : NodeAt(last.pre[f], dirname(last.path)).t = "map"
    /\ MapsAbove(last.pre[NewEntryTarget], last.path)

-----------------------------------------------------------------------------
\* the concrete matches of network/{ethernets,bridges,vlans}/*/<key_glob> in doc
MatchesOf(doc, key_glob) ==
    {p \in AllPaths(doc) :
        /\ Len(p) = Len(key_glob) + 3
        /\ p[1] = "network"
        /\ p[2] \in {"ethernets", "bridges", "vlans"}
        /\ \A i \in 1..Len(key_glob) : key_glob[i] = "*" \/ key_glob[i] = p[3 + i]}

Below(p, M) == \E m \in M : Len(m) < Len(p) /\ SubSeq(p, 1, Len(m)) = m

\* a node without its children: a scalar itself, a container's keys
Shallow(n) ==
    IF n.t = "map" THEN [t |-> "map", v |-> DOMAIN n.v]
    ELSE IF n.t = "seq" THEN [t |-> "seq", v |-> Len(n.v)]
    ELSE n

\* C10: set_all(key_glob, raw_value) replaces the value at every concrete
\* match in every loaded document with decode_input(raw_value), each match in
\* the document it was found in, and changes no other path of any document.
C10_SetAllEveryMatch ==
    last.op = "cmd_set_all" =>
        /\ last.res = "ok"
        /\ \A f \in LoadedFiles :
              LET M == MatchesOf(last.pre[f], last.path)
              IN /\ \A p \in M :
                       /\ HasPath(netplan[f], p)
                       /\ NodeAt(netplan[f], p) = convert_input_val(last.raw)
                 /\ \A p \in AllPaths(last.pre[f]) \cup AllPaths(netplan[f]) :
                       (p \notin M /\ ~Below(p, M))
                          => /\ HasPath(last.pre[f], p)
                             /\ HasPath(netplan[f], p)
                             /\ Shallow(NodeAt(netplan[f], p)) = Shallow(NodeAt(last.pre[f], p))

\* C10 witness: a set_all whose glob matched in both documents.
C10_Witness ==
    /\ last.op = "cmd_set_all"
    /\ last.res = "ok"
    /\ last.raw = <<"1">>
    /\ \A f \in DOMAIN last.pre : MatchesOf(last.pre[f], last.path) # {}
    /\ Cardinality(DOMAIN last.pre) = 2
    /\ last.written = DOMAIN last.pre
====
